---- MODULE Spec2Model ----
(***************************************************************************)
(* NYC yellow taxi dashboard: the paginated fetch (load_data_from_api),    *)
(* the visual transform (transform_for_visuals) and the dashboard script   *)
(* (app.py), as one state machine.                                         *)
(*                                                                         *)
(* A run exercises one entry point, chosen in Init:                        *)
(*   "fetch"     a call load_data_from_api(start_date, end_date,           *)
(*               max_rows, batch_size) against a server that answers each  *)
(*               page request in any of the ways an HTTP server can;       *)
(*   "transform" a call transform_for_visuals(df) and a second call on the *)
(*               same df;                                                  *)
(*   "script"    app.py from line 19 on: transform_for_visuals on a raw    *)
(*               table with rows, then the date input, the filter block    *)
(*               and the two select boxes (lines 19-76);                   *)
(*   "app"       the dashboard script from its first line.                 *)
(***************************************************************************)
EXTENDS Integers, Sequences, FiniteSets, TLC

(* ------------------------------ bounds --------------------------------- *)
MaxRows == 5
MaxBatch == 2
NumDates == 2
MaxLen == 2

(* ------------------------------ values --------------------------------- *)
\* pandas' missing value (NaN / None in an object column)
NaN == "NaN"

\* Python's None where a DataFrame is expected
None == [kind |-> "None", cols |-> {}, rows |-> <<>>]

DataFrame(cols, rows) == [kind |-> "DataFrame", cols |-> cols, rows |-> rows]

\* the SELECT list of the query
ProjectedColumns ==
  {"vendorid", "tpep_pickup_datetime", "tpep_dropoff_datetime",
   "passenger_count", "trip_distance", "ratecodeid", "store_and_fwd_flag",
   "pulocationid", "dolocationid", "payment_type", "fare_amount", "extra",
   "mta_tax", "tip_amount", "tolls_amount", "improvement_surcharge",
   "total_amount", "congestion_surcharge", "airport_fee"}

Dates == 1..NumDates

VARIABLES
  entry,
  \* load_data_from_api: arguments, position, locals, the log of page
  \* requests and responses, the returned value, an escaped exception
  start_date, end_date, max_rows, batch_size,
  f_pc, offset, all_data, requests, responses, df_raw, f_raised,
  \* transform_for_visuals: the objects on the heap (1 is the caller's
  \* argument), the local df_viz (a reference), the lookup file, position
  heap, df_viz, lookup, borough_map, lookup_reads, t_pc, t_error, call_no,
  returned, t_input,
  \* app.py: position, the names bound in the script's namespace, the model
  \* artifacts on disk, widget values and the filtered table
  a_pc, a_error, names, model_file, features_file,
  date_range, passenger_filter, payment_filter, filtered_df

fetchVars == <<start_date, end_date, max_rows, batch_size,
               f_pc, offset, all_data, requests, responses, df_raw, f_raised>>

transformVars == <<heap, df_viz, lookup, borough_map, lookup_reads, t_pc,
                   t_error, call_no, returned, t_input>>

appVars == <<a_pc, a_error, names, model_file, features_file,
             date_range, passenger_filter, payment_filter, filtered_df>>

vars == <<entry, fetchVars, transformVars, appVars>>

(* ------------------------ load_data_from_api --------------------------- *)

\* range(0, max_rows, batch_size) raises ValueError for a zero step
RangeRaises(step) == step = 0

\* a range that ignores its step
NextOffsetNoStep(o, step) == o + 1

\* the next value of range(0, max_rows, batch_size) after o
NextOffset(o, step) == o + step

\* the loop runs while the range has a value left
RangeHasNext(o, stop) == o < stop

\* the query of one page: the date filter and LIMIT batch_size OFFSET offset
Query(s, e, limit, off) == [start |-> s, end |-> e, limit |-> limit, offset |-> off]

\* pd.read_csv of a body with n data rows, for the page asked at offset off:
\* row i of the page is the server's row off + i of the filtered result
ReadCsv(off, n) ==
  [i \in 1..n |-> [page |-> off, idx |-> i,
                   tpep_pickup_datetime |-> "object",
                   tpep_dropoff_datetime |-> "object"]]

RECURSIVE Concat(_)
\* pd.concat(all_data, ignore_index=True): the chunks' rows in list order
Concat(chunks) ==
  IF chunks = <<>> THEN <<>>
  ELSE Head(chunks) \o Concat(Tail(chunks))

\* pd.to_datetime on the two timestamp columns
ToDatetime(rows) ==
  [i \in 1..Len(rows) |->
     [rows[i] EXCEPT !.tpep_pickup_datetime = "datetime64",
                     !.tpep_dropoff_datetime = "datetime64"]]

\* a status check that hands back the pages accumulated so far
StatusFailurePartial(chunks) ==
  IF chunks = <<>> THEN None ELSE DataFrame(ProjectedColumns, ToDatetime(Concat(chunks)))

\* what the status check returns for a non-200 page
StatusFailureResult(chunks) == None

\* the exceptions the body of the try block can raise, all of them
\* subclasses of Exception
RaisedExceptions == {"ValueError", "RequestException", "ParserError", "DateParseError"}

\* except Exception as e: catches every subclass of Exception
ExceptCatches(exc) == exc \in RaisedExceptions

\* an exception inside the try block: print it and return None when the
\* except clause catches it, propagate to the caller otherwise
Raise(exc) ==
  /\ df_raw' = IF ExceptCatches(exc) THEN None ELSE df_raw
  /\ f_raised' = ~ExceptCatches(exc)
  /\ f_pc' = "done"

\* call: bind the arguments, all_data = [], enter the try block and the loop
FetchStart ==
  /\ entry = "fetch" /\ f_pc = "start"
  /\ all_data' = <<>>
  /\ IF RangeRaises(batch_size)
       THEN Raise("ValueError")
       ELSE /\ f_pc' = "loop"
            /\ UNCHANGED <<df_raw, f_raised>>
  /\ offset' = 0
  /\ UNCHANGED <<transformVars, appVars, entry, start_date, end_date, max_rows, batch_size,
                 requests, responses>>

\* one more value in the range: build the query and issue requests.get
SendRequest ==
  /\ f_pc = "loop"
  /\ RangeHasNext(offset, max_rows)
  /\ requests' = Append(requests, Query(start_date, end_date, batch_size, offset))
  /\ f_pc' = "wait"
  /\ UNCHANGED <<transformVars, appVars, entry, start_date, end_date, max_rows, batch_size,
                 offset, all_data, responses, df_raw, f_raised>>

\* requests.get raises (timeout, connection error): caught by except
RecvNetworkError ==
  /\ f_pc = "wait"
  /\ responses' = Append(responses, [kind |-> "exception", n |-> 0])
  /\ Raise("RequestException")
  /\ UNCHANGED <<transformVars, appVars, entry, start_date, end_date, max_rows, batch_size,
                 offset, all_data, requests>>

\* response.status_code != 200: return None
RecvBadStatus ==
  /\ f_pc = "wait"
  /\ responses' = Append(responses, [kind |-> "status", n |-> 0])
  /\ df_raw' = StatusFailureResult(all_data)
  /\ f_pc' = "done"
  /\ UNCHANGED <<transformVars, appVars, entry, start_date, end_date, max_rows, batch_size,
                 offset, all_data, requests, f_raised>>

\* 200 with a blank body: break
RecvEmptyBody ==
  /\ f_pc = "wait"
  /\ responses' = Append(responses, [kind |-> "empty", n |-> 0])
  /\ f_pc' = "after_loop"
  /\ UNCHANGED <<transformVars, appVars, entry, start_date, end_date, max_rows, batch_size,
                 offset, all_data, requests, df_raw, f_raised>>

\* 200 with a header line only: chunk.empty, break
RecvHeaderOnly ==
  /\ f_pc = "wait"
  /\ responses' = Append(responses, [kind |-> "header", n |-> 0])
  /\ f_pc' = "after_loop"
  /\ UNCHANGED <<transformVars, appVars, entry, start_date, end_date, max_rows, batch_size,
                 offset, all_data, requests, df_raw, f_raised>>

\* 200 with a body pd.read_csv cannot parse: caught by except
RecvUnparsable ==
  /\ f_pc = "wait"
  /\ responses' = Append(responses, [kind |-> "unparsable", n |-> 0])
  /\ Raise("ParserError")
  /\ UNCHANGED <<transformVars, appVars, entry, start_date, end_date, max_rows, batch_size,
                 offset, all_data, requests>>

\* 200 with n data rows (the server honours LIMIT): append the chunk and go
\* on with the next value of the range
RecvRows ==
  /\ f_pc = "wait"
  /\ \E n \in 1..batch_size :
       /\ responses' = Append(responses, [kind |-> "rows", n |-> n])
       /\ all_data' = Append(all_data, ReadCsv(offset, n))
  /\ offset' = NextOffset(offset, batch_size)
  /\ f_pc' = "loop"
  /\ UNCHANGED <<transformVars, appVars, entry, start_date, end_date, max_rows, batch_size,
                 requests, df_raw, f_raised>>

\* the range is exhausted
LoopExit ==
  /\ f_pc = "loop"
  /\ ~RangeHasNext(offset, max_rows)
  /\ f_pc' = "after_loop"
  /\ UNCHANGED <<transformVars, appVars, entry, start_date, end_date, max_rows, batch_size,
                 offset, all_data, requests, responses, df_raw, f_raised>>

\* if not all_data: return None; else concat, parse the timestamps, return
Finish ==
  /\ f_pc = "after_loop"
  /\ df_raw' = IF all_data = <<>> THEN None
               ELSE DataFrame(ProjectedColumns, ToDatetime(Concat(all_data)))
  /\ f_pc' = "done"
  /\ UNCHANGED <<transformVars, appVars, entry, start_date, end_date, max_rows, batch_size,
                 offset, all_data, requests, responses, f_raised>>

\* pd.to_datetime raises on a timestamp it cannot parse: caught by except
FinishParseError ==
  /\ f_pc = "after_loop"
  /\ all_data # <<>>
  /\ Raise("DateParseError")
  /\ UNCHANGED <<transformVars, appVars, entry, start_date, end_date, max_rows, batch_size,
                 offset, all_data, requests, responses>>

FetchNext ==
  \/ FetchStart \/ SendRequest \/ RecvNetworkError \/ RecvBadStatus
  \/ RecvEmptyBody \/ RecvHeaderOnly \/ RecvUnparsable \/ RecvRows
  \/ LoopExit \/ Finish \/ FinishParseError

(* ----------------------- transform_for_visuals -------------------------- *)
\* Codes and labels are written as text: a cell holds the CSV text of its
\* code before a mapping and the label after it, and dict lookup compares by
\* equality, as pandas' Series.map does.

vendor_map ==
  [k \in {"1", "2", "6", "7"} |->
     CASE k = "1" -> "Creative Mobile Technologies (CMT)"
       [] k = "2" -> "Curb Mobility"
       [] k = "6" -> "Myle Technologies"
       [] k = "7" -> "Helix"]

rate_map ==
  [k \in {"1", "2", "3", "4", "5", "6", "99"} |->
     CASE k = "1" -> "Standard Rate"
       [] k = "2" -> "JFK Airport"
       [] k = "3" -> "Newark Airport"
       [] k = "4" -> "Nassau or Westchester County"
       [] k = "5" -> "Negotiated Fare"
       [] k = "6" -> "Group Ride"
       [] k = "99" -> "Private Hire"]

sfw_map ==
  [k \in {"Y", "N"} |->
     CASE k = "Y" -> "Store and forward"
       [] k = "N" -> "Not a store and forward trip"]

payment_map ==
  [k \in {"1", "2", "3", "4", "5", "6"} |->
     CASE k = "1" -> "Credit Card"
       [] k = "2" -> "Cash"
       [] k = "3" -> "No Charge"
       [] k = "4" -> "Dispute"
       [] k = "5" -> "Unknown"
       [] k = "6" -> "Voided Trip"]

\* Series.map(dict) on one cell: the dict's value, NaN for a key not in it
MapDict(d, v) == IF v \in DOMAIN d THEN d[v] ELSE NaN

\* a mapping step that leaves the missing values in place
FillNaSkipped(v, x) == v

\* Series.fillna(x) on one cell
FillNa(v, x) == IF v = NaN THEN x ELSE v

\* df[src].map(d).fillna(fallback): the new column, one value per row
MapColumn(t, src, d, fallback) ==
  [i \in 1..Len(t.rows) |-> FillNa(MapDict(d, t.rows[i][src]), fallback)]

\* df[col] = values: the column is added, or overwritten when it exists;
\* rows and their order are untouched
AssignCol(t, col, values) ==
  DataFrame(t.cols \cup {col},
            [i \in 1..Len(t.rows) |-> (col :> values[i]) @@ t.rows[i]])

\* borough_df.set_index("LocationID")["Borough"].to_dict(): for a repeated
\* LocationID the last row wins
ToDict(rows) ==
  [k \in {rows[i].LocationID : i \in DOMAIN rows} |->
     rows[CHOOSE i \in DOMAIN rows :
            /\ rows[i].LocationID = k
            /\ \A j \in DOMAIN rows : j > i => rows[j].LocationID # k].Borough]

\* a borough join done as an inner merge on the location id: rows whose id
\* has no lookup entry are dropped
BoroughMerge(t, src, col, bmap) ==
  LET kept == SelectSeq(t.rows, LAMBDA r : r[src] \in DOMAIN bmap)
  IN DataFrame(t.cols \cup {col},
               [i \in 1..Len(kept) |-> (col :> bmap[kept[i][src]]) @@ kept[i]])

\* df_viz[col] = df_viz[src].map(borough_map).fillna("Unknown")
BoroughColumn(t, src, col, bmap) ==
  AssignCol(t, col, MapColumn(t, src, bmap, "Unknown"))

\* the four categorical mappings, in source order
MapCodes(t) ==
  LET t1 == AssignCol(t, "vendor_name", MapColumn(t, "vendorid", vendor_map, "Other"))
      t2 == AssignCol(t1, "rate_name", MapColumn(t1, "ratecodeid", rate_map, "Other"))
      t3 == AssignCol(t2, "store_and_fwd_flag",
                      MapColumn(t2, "store_and_fwd_flag", sfw_map, "Unknown"))
  IN AssignCol(t3, "payment_type",
               MapColumn(t3, "payment_type", payment_map, "Unknown"))

\* a precondition that also rejects a table with no rows
IsNoneOrEmpty(df) == df = None \/ df.rows = <<>>

\* df is None
IsNone(df) == df = None

\* a "copy" that hands back the same object
CopyAlias(src, fresh) == src

\* df.copy(): the reference of a new object
Copy(src, fresh) == fresh

\* a heap slot no object lives in
Unbound == [kind |-> "unbound", cols |-> {}, rows |-> <<>>]

\* the next unused reference
FreshRef == CHOOSE r \in DOMAIN heap : heap[r] = Unbound /\ \A q \in DOMAIN heap : q < r => heap[q] # Unbound

\* if df is None: raise ValueError; df_viz = df.copy()
T_Check ==
  /\ entry \in {"transform", "script"} /\ t_pc = "start"
  /\ IF IsNone(heap[1])
       THEN /\ t_error' = "ValueError"
            /\ t_pc' = "raised"
            /\ UNCHANGED <<heap, df_viz>>
       ELSE /\ df_viz' = Copy(1, FreshRef)
            /\ heap' = [heap EXCEPT ![df_viz'] = heap[1]]
            /\ t_pc' = "map_codes"
            /\ UNCHANGED t_error
  /\ UNCHANGED <<fetchVars, appVars, entry, lookup, borough_map, lookup_reads,
                 call_no, returned, t_input>>

\* vendor_name, rate_name, store_and_fwd_flag, payment_type
T_MapCodes ==
  /\ t_pc = "map_codes"
  /\ heap' = [heap EXCEPT ![df_viz] = MapCodes(@)]
  /\ t_pc' = "read_lookup"
  /\ UNCHANGED <<fetchVars, appVars, entry, df_viz, lookup, borough_map,
                 lookup_reads, t_error, call_no, returned, t_input>>

\* pd.read_csv(borough_path) and the dict built from it
T_ReadLookup ==
  /\ t_pc = "read_lookup"
  /\ lookup_reads' = lookup_reads + 1
  /\ borough_map' = ToDict(lookup)
  /\ t_pc' = "map_boroughs"
  /\ UNCHANGED <<fetchVars, appVars, entry, heap, df_viz, lookup, t_error,
                 call_no, returned, t_input>>

\* pulocation_borough, dolocation_borough, return df_viz
T_MapBoroughs ==
  /\ t_pc = "map_boroughs"
  /\ heap' = [heap EXCEPT ![df_viz] =
                BoroughColumn(
                  BoroughColumn(@, "pulocationid", "pulocation_borough", borough_map),
                  "dolocationid", "dolocation_borough", borough_map)]
  /\ returned' = Append(returned, df_viz)
  /\ t_pc' = "done"
  /\ UNCHANGED <<fetchVars, appVars, entry, df_viz, lookup, borough_map,
                 lookup_reads, t_error, call_no, t_input>>

\* the caller invokes the function again on the same table
T_CallAgain ==
  /\ entry = "transform" /\ t_pc = "done" /\ call_no = 1
  /\ call_no' = 2
  /\ t_pc' = "start"
  /\ df_viz' = 0
  /\ borough_map' = <<>>
  /\ UNCHANGED <<fetchVars, appVars, entry, heap, lookup, lookup_reads,
                 t_error, returned, t_input>>

TransformNext ==
  \/ T_Check \/ T_MapCodes \/ T_ReadLookup \/ T_MapBoroughs \/ T_CallAgain

(* ------------------------------- app.py --------------------------------- *)

\* load_data_from_api has two parameters without a default
RequiredPositional == 2

\* the call load_data_from_api() of the script passes none
PassedPositional == 0

\* the rows of a table
Rows(t) == t.rows

\* a name is read: NameError unless the script has bound it
IsBound(name) == name \in names

\* the rows kept by the boolean mask of the filter expression
FilterRows(t, s, e, pf, pay) ==
  SelectSeq(t.rows, LAMBDA r :
     /\ r.tpep_pickup_datetime >= s
     /\ r.tpep_pickup_datetime <= e
     /\ r.passenger_count = pf
     /\ r.payment_type = pay)

\* the script's df_viz: the table the first call returned
ScriptDfViz == heap[returned[1]]

\* Series.min() / Series.max() of the pickup dates
MinDate(t) == CHOOSE d \in {t.rows[i].tpep_pickup_datetime : i \in DOMAIN t.rows} :
                \A i \in DOMAIN t.rows : d <= t.rows[i].tpep_pickup_datetime
MaxDate(t) == CHOOSE d \in {t.rows[i].tpep_pickup_datetime : i \in DOMAIN t.rows} :
                \A i \in DOMAIN t.rows : d >= t.rows[i].tpep_pickup_datetime

\* what st.date_input can return for a range value: no date, a start only,
\* or an ordered pair, all within [min_value, max_value]
DateInputValues(lo, hi) ==
  {<<>>} \cup {<<d>> : d \in lo..hi}
         \cup {r \in (lo..hi) \X (lo..hi) : r[1] <= r[2]}

\* passenger counts offered by the select box: non-null, unique, > 0
valid_passenger_counts(t) ==
  {n \in {t.rows[i].passenger_count : i \in DOMAIN t.rows} : n > 0}

\* payment types offered by the select box: non-null, unique
payment_options(t) ==
  {t.rows[i].payment_type : i \in DOMAIN t.rows} \ {NaN}

\* model = joblib.load("models/fare_model.pkl")
AppLoadModel ==
  /\ entry = "app" /\ a_pc = "load_model"
  /\ IF model_file
       THEN /\ a_pc' = "load_features"
            /\ names' = names \cup {"model"}
            /\ UNCHANGED a_error
       ELSE /\ a_pc' = "crashed"
            /\ a_error' = "FileNotFoundError"
            /\ UNCHANGED names
  /\ UNCHANGED <<fetchVars, transformVars, entry, model_file, features_file,
                 date_range, passenger_filter, payment_filter, filtered_df>>

\* model_features = joblib.load("models/fare_model_features.pkl")
AppLoadFeatures ==
  /\ a_pc = "load_features"
  /\ IF features_file
       THEN /\ a_pc' = "load_data"
            /\ names' = names \cup {"model_features"}
            /\ UNCHANGED a_error
       ELSE /\ a_pc' = "crashed"
            /\ a_error' = "FileNotFoundError"
            /\ UNCHANGED names
  /\ UNCHANGED <<fetchVars, transformVars, entry, model_file, features_file,
                 date_range, passenger_filter, payment_filter, filtered_df>>

\* page setup, then df_raw = load_data_from_api(): the call passes no
\* argument for start_date and end_date, which raises TypeError before the
\* function body runs; nothing in the script catches it
AppLoadData ==
  /\ a_pc = "load_data"
  /\ IF PassedPositional < RequiredPositional
       THEN /\ a_pc' = "crashed"
            /\ a_error' = "TypeError"
       ELSE /\ a_pc' = "transform"
            /\ UNCHANGED a_error
  /\ UNCHANGED <<fetchVars, transformVars, entry, names, model_file,
                 features_file, date_range, passenger_filter, payment_filter,
                 filtered_df>>

\* The rest of the script, run on the table transform_for_visuals returned
\* for a raw table with rows (entry "script": lines 19-76 as a unit).

\* df_viz = transform_for_visuals(df_raw) has returned
AppTransformed ==
  /\ entry = "script" /\ a_pc = "transform"
  /\ t_pc = "done"
  /\ names' = names \cup {"df_raw", "df_viz"}
  /\ a_pc' = "date_input"
  /\ UNCHANGED <<fetchVars, transformVars, entry, a_error, model_file,
                 features_file, date_range, passenger_filter, payment_filter,
                 filtered_df>>

\* min_date, max_date and date_range = st.sidebar.date_input(...)
AppDateInput ==
  /\ a_pc = "date_input"
  /\ date_range' \in DateInputValues(MinDate(ScriptDfViz), MaxDate(ScriptDfViz))
  /\ names' = names \cup {"min_date", "max_date", "date_range"}
  /\ a_pc' = "apply_filters"
  /\ UNCHANGED <<fetchVars, transformVars, entry, a_error, model_file,
                 features_file, passenger_filter, payment_filter, filtered_df>>

\* if len(date_range) == 2: the filter expression, which reads
\* passenger_filter and payment_filter; any exception inside the try block
\* (the NameError of an unbound name included) is caught and the unfiltered
\* copy used; else: the unfiltered copy
AppApplyFilters ==
  /\ a_pc = "apply_filters"
  /\ IF Len(date_range) = 2
       THEN IF IsBound("passenger_filter") /\ IsBound("payment_filter")
              THEN filtered_df' =
                     DataFrame(ScriptDfViz.cols,
                               FilterRows(ScriptDfViz, date_range[1], date_range[2],
                                          passenger_filter, payment_filter))
              ELSE filtered_df' = ScriptDfViz
       ELSE filtered_df' = ScriptDfViz
  /\ names' = names \cup (IF Len(date_range) = 2 THEN {"start_date", "end_date"} ELSE {})
                    \cup {"filtered_df"}
  /\ a_pc' = "select_passenger"
  /\ UNCHANGED <<fetchVars, transformVars, entry, a_error, model_file,
                 features_file, date_range, passenger_filter, payment_filter>>

\* passenger_filter = st.sidebar.selectbox(options=valid_passenger_counts)
AppSelectPassenger ==
  /\ a_pc = "select_passenger"
  /\ LET options == valid_passenger_counts(ScriptDfViz)
     IN IF options = {} THEN passenger_filter' = 0
        ELSE passenger_filter' \in options
  /\ names' = names \cup {"valid_passenger_counts", "passenger_filter"}
  /\ a_pc' = "select_payment"
  /\ UNCHANGED <<fetchVars, transformVars, entry, a_error, model_file,
                 features_file, date_range, payment_filter, filtered_df>>

\* payment_filter = st.sidebar.selectbox(options=payment types of df_viz)
AppSelectPayment ==
  /\ a_pc = "select_payment"
  /\ payment_filter' \in payment_options(ScriptDfViz)
  /\ names' = names \cup {"payment_filter"}
  /\ a_pc' = "kpis"
  /\ UNCHANGED <<fetchVars, transformVars, entry, a_error, model_file,
                 features_file, date_range, passenger_filter, filtered_df>>

AppNext ==
  \/ AppLoadModel \/ AppLoadFeatures \/ AppLoadData
  \/ AppTransformed \/ AppDateInput \/ AppApplyFilters
  \/ AppSelectPassenger \/ AppSelectPayment

(* ------------------------------- inputs --------------------------------- *)

\* a raw trip row with every projected column; the columns no mapping reads
\* keep one value
BaseRow ==
  [vendorid |-> "1", tpep_pickup_datetime |-> 1, tpep_dropoff_datetime |-> 1,
   passenger_count |-> 1, trip_distance |-> "1.5", ratecodeid |-> "1",
   store_and_fwd_flag |-> "N", pulocationid |-> "132", dolocationid |-> "237",
   payment_type |-> "1", fare_amount |-> "9.3", extra |-> "0",
   mta_tax |-> "0.5", tip_amount |-> "0", tolls_amount |-> "0",
   improvement_surcharge |-> "1", total_amount |-> "10.8",
   congestion_surcharge |-> "0", airport_fee |-> "0"]

RawRow(v, r, f, p, pu, do, pc, d) ==
  [BaseRow EXCEPT !.vendorid = v, !.ratecodeid = r, !.store_and_fwd_flag = f,
                  !.payment_type = p, !.pulocationid = pu, !.dolocationid = do,
                  !.passenger_count = pc, !.tpep_pickup_datetime = d]

\* rows covering every key of every fixed map, codes outside the maps,
\* missing codes, and location ids inside and outside the lookup
SampleRows ==
  { RawRow("1", "2", "Y", "3", "132", "999", 1, 1),
    RawRow("2", "99", "N", "5", "237", "132", 2, NumDates),
    RawRow("6", "1", "Y", "1", "132", "237", 1, NumDates),
    RawRow("7", "3", "N", "2", "1", "132", 2, 1),
    RawRow("1", "4", "N", "4", "237", "1", 0, 1),
    RawRow("2", "5", "Y", "6", "265", "264", 1, 1),
    RawRow("1", "6", "N", "1", "132", "132", 3, NumDates),
    RawRow("3", "7", "X", "0", "999", "0", 0, NumDates),
    RawRow(NaN, NaN, NaN, NaN, NaN, NaN, 1, 1) }

RECURSIVE SeqsUpTo(_, _)
\* the sequences over S of length at most n
SeqsUpTo(S, n) ==
  IF n = 0 THEN {<<>>}
  ELSE LET shorter == SeqsUpTo(S, n - 1)
       IN shorter \cup {Append(q, x) : q \in shorter, x \in S}

RawTables == {DataFrame(ProjectedColumns, rows) : rows \in SeqsUpTo(SampleRows, MaxLen)}

LookupRow(id, borough) == [LocationID |-> id, Borough |-> borough]

\* contents of data/locationid.csv: no rows, distinct ids, a repeated id,
\* a file without id 132
LookupFiles ==
  { <<>>,
    <<LookupRow("132", "Queens"), LookupRow("237", "Manhattan"), LookupRow("1", "EWR")>>,
    <<LookupRow("132", "Queens"), LookupRow("132", "Manhattan")>>,
    <<LookupRow("237", "Manhattan"), LookupRow("264", "Unknown")>> }

(* ---------------------------- specification ---------------------------- *)

InitFetch ==
  /\ f_pc = "start" /\ offset = 0 /\ all_data = <<>>
  /\ requests = <<>> /\ responses = <<>>
  /\ df_raw = None /\ f_raised = FALSE

InitTransform ==
  /\ df_viz = 0 /\ borough_map = <<>> /\ lookup_reads = 0
  /\ t_pc = "start" /\ t_error = "none" /\ call_no = 1 /\ returned = <<>>

InitApp ==
  /\ a_error = "none" /\ names = {} /\ date_range = <<>>
  /\ passenger_filter = 0 /\ payment_filter = "" /\ filtered_df = None

IdleFetchArgs == start_date = 1 /\ end_date = 1 /\ max_rows = 0 /\ batch_size = 1

IdleTransformArgs == t_input = None /\ lookup = <<>>

Heap(df) == [r \in 1..3 |-> IF r = 1 THEN df ELSE Unbound]

Init ==
  /\ InitFetch /\ InitTransform /\ InitApp
  /\ \/ /\ entry = "fetch"
        /\ start_date \in Dates /\ end_date \in Dates
        /\ max_rows \in 0..MaxRows /\ batch_size \in 0..MaxBatch
        /\ IdleTransformArgs /\ heap = Heap(None)
        /\ a_pc = "off" /\ model_file = TRUE /\ features_file = TRUE
     \/ /\ entry = "transform"
        /\ IdleFetchArgs
        /\ t_input \in RawTables \cup {None}
        /\ lookup \in LookupFiles
        /\ heap = Heap(t_input)
        /\ a_pc = "off" /\ model_file = TRUE /\ features_file = TRUE
     \/ /\ entry = "script"
        /\ IdleFetchArgs
        /\ t_input \in {t \in RawTables : t.rows # <<>>}
        /\ lookup \in LookupFiles
        /\ heap = Heap(t_input)
        /\ a_pc = "transform" /\ model_file = TRUE /\ features_file = TRUE
     \/ /\ entry = "app"
        /\ IdleFetchArgs
        /\ IdleTransformArgs /\ heap = Heap(None)
        /\ a_pc = "load_model"
        /\ model_file \in BOOLEAN /\ features_file \in BOOLEAN

Next == FetchNext \/ TransformNext \/ AppNext

Spec == Init /\ [][Next]_vars

(* ------------------------------- claims --------------------------------- *)

AddedColumns == {"vendor_name", "rate_name", "pulocation_borough", "dolocation_borough"}

OverwrittenColumns == {"store_and_fwd_flag", "payment_type"}

\* the tables the calls of transform_for_visuals have returned
ReturnedTables == {heap[returned[k]] : k \in DOMAIN returned}

\* C1: a table returned by load_data_from_api has at most max_rows rows.
RowsWithinBudget ==
  (f_pc = "done" /\ df_raw # None) => Len(df_raw.rows) <= max_rows

\* C2: load_data_from_api never raises, and returns None whenever a page
\* request came back with a status other than 200 or raised, or no page
\* yielded rows.
FailureYieldsNone ==
  /\ ~f_raised
  /\ f_pc = "done" =>
       ( ( \/ \E i \in DOMAIN responses : responses[i].kind \in {"status", "exception"}
           \/ ~ \E i \in DOMAIN responses : responses[i].kind = "rows" )
         => df_raw = None )

\* a later page fails after an earlier page was accumulated
FailureAfterRowsReached ==
  /\ f_pc = "done" /\ Len(responses) >= 2
  /\ responses[1].kind = "rows"
  /\ responses[Len(responses)].kind = "status"
  /\ df_raw = None

\* C3: the output of transform_for_visuals has the input's rows, in the
\* input's order, every input column, the four added columns, and differs
\* from the input only in the added and the two overwritten columns.
RowsPreserved ==
  \A out \in ReturnedTables :
    /\ out.kind = "DataFrame"
    /\ Len(out.rows) = Len(t_input.rows)
    /\ out.cols = t_input.cols \cup AddedColumns
    /\ \A i \in DOMAIN out.rows :
         /\ DOMAIN out.rows[i] = out.cols
         /\ \A c \in t_input.cols \ OverwrittenColumns :
              out.rows[i][c] = t_input.rows[i][c]

\* two different rows, a location id the lookup lacks, a repeated lookup id
JoinCasesReached ==
  /\ returned # <<>>
  /\ Len(t_input.rows) = 2 /\ t_input.rows[1] # t_input.rows[2]
  /\ \E i \in DOMAIN t_input.rows :
       t_input.rows[i].pulocationid \notin DOMAIN ToDict(lookup)
  /\ \E i, j \in DOMAIN lookup : i # j /\ lookup[i].LocationID = lookup[j].LocationID

\* the label the contract gives a code: the map's, or the fallback
LabelOf(d, code, fallback) == IF code \in DOMAIN d THEN d[code] ELSE fallback

\* C4: every code-to-label mapping is total: a code of the map gets the
\* map's label, any other or missing code the fallback ("Other" for vendor
\* and rate, "Unknown" for payment, flag and boroughs); no label is null.
LabelsTotal ==
  \A out \in ReturnedTables :
    \A i \in DOMAIN out.rows :
      LET in == t_input.rows[i]
          o == out.rows[i]
          boroughs == ToDict(lookup)
      IN /\ o.vendor_name = LabelOf(vendor_map, in.vendorid, "Other")
         /\ o.rate_name = LabelOf(rate_map, in.ratecodeid, "Other")
         /\ o.payment_type = LabelOf(payment_map, in.payment_type, "Unknown")
         /\ o.store_and_fwd_flag = LabelOf(sfw_map, in.store_and_fwd_flag, "Unknown")
         /\ o.pulocation_borough = LabelOf(boroughs, in.pulocationid, "Unknown")
         /\ o.dolocation_borough = LabelOf(boroughs, in.dolocationid, "Unknown")
         /\ \A c \in AddedColumns \cup OverwrittenColumns : o[c] # NaN
         /\ in.vendorid = "1" => o.vendor_name = "Creative Mobile Technologies (CMT)"
         /\ in.ratecodeid = "2" => o.rate_name = "JFK Airport"
         /\ in.payment_type = "3" => o.payment_type = "No Charge"
         /\ in.dolocationid = "999" => o.dolocation_borough = "Unknown"
         /\ in.vendorid \notin {"1", "2", "6", "7"} => o.vendor_name = "Other"
         /\ in.payment_type \notin {"1", "2", "3", "4", "5", "6"} => o.payment_type = "Unknown"

\* the spec's scenario row and a row of missing codes have been transformed
ScenarioLabelled ==
  /\ returned # <<>>
  /\ \E i \in DOMAIN t_input.rows :
       /\ t_input.rows[i].vendorid = "1" /\ t_input.rows[i].ratecodeid = "2"
       /\ t_input.rows[i].payment_type = "3" /\ t_input.rows[i].dolocationid = "999"
       /\ t_input.rows[i].pulocationid \in DOMAIN ToDict(lookup)
  /\ \E i \in DOMAIN t_input.rows : t_input.rows[i].vendorid = NaN

\* C5: called with None, transform_for_visuals raises ValueError before it
\* reads the lookup or maps anything; a table with no rows is accepted and
\* gives a table with no rows and the enriched columns.
NonePrecondition ==
  /\ (entry = "transform" /\ t_input = None /\ t_pc # "start") =>
       /\ t_error = "ValueError" /\ t_pc = "raised"
       /\ lookup_reads = 0 /\ returned = <<>> /\ heap = Heap(None)
  /\ t_input # None => t_error = "none"
  /\ (t_input # None /\ t_input.rows = <<>> /\ lookup_reads >= 1) =>
       \E r \in DOMAIN heap :
          /\ r # 1 /\ heap[r].kind = "DataFrame" /\ heap[r].rows = <<>>
  /\ (t_input # None /\ t_input.rows = <<>>) =>
       \A out \in ReturnedTables :
          /\ out.rows = <<>>
          /\ out.cols = t_input.cols \cup AddedColumns

\* the call with None has raised
ValueErrorRaised ==
  /\ entry = "transform" /\ t_input = None
  /\ t_error = "ValueError" /\ lookup_reads = 0

MissingArtifactKeepsDashboard ==
  (entry = "app" /\ ~(model_file /\ features_file)) => a_pc # "crashed"

\* C8: a call leaves the caller's table as it was, and two calls on the same
\* table with the same lookup file return equal tables.
TransformPure ==
  /\ heap[1] = t_input
  /\ Len(returned) = 2 => heap[returned[1]] = heap[returned[2]]

\* the second call on a table with rows has returned
SecondCallReturned ==
  /\ Len(returned) = 2
  /\ t_input.rows # <<>>

RECURSIVE RowsBefore(_)
\* the rows received in the pages before page j
RowsBefore(j) == IF j = 1 THEN 0 ELSE RowsBefore(j - 1) + responses[j - 1].n

\* C9: page requests go out one at a time with offsets 0, batch_size,
\* 2*batch_size, ... below max_rows, each with LIMIT batch_size; none
\* follows an empty page, a page without rows or a failure; and a returned
\* table is the received pages' rows in offset order.
PagingInOffsetOrder ==
  /\ Len(requests) - Len(responses) \in {0, 1}
  /\ f_pc = "wait" <=> Len(requests) = Len(responses) + 1
  /\ \A i \in DOMAIN requests :
       /\ requests[i].offset = (i - 1) * batch_size
       /\ requests[i].offset < max_rows
       /\ requests[i].limit = batch_size
  /\ \A i \in DOMAIN responses : i < Len(requests) => responses[i].kind = "rows"
  /\ f_pc = "after_loop" =>
       \/ Len(requests) * batch_size >= max_rows
       \/ responses[Len(responses)].kind \in {"empty", "header"}
  /\ (f_pc = "done" /\ df_raw # None) =>
       /\ Len(df_raw.rows) = RowsBefore(Len(responses) + 1)
       /\ \A j \in DOMAIN responses : \A i \in 1..responses[j].n :
            /\ df_raw.rows[RowsBefore(j) + i].page = requests[j].offset
            /\ df_raw.rows[RowsBefore(j) + i].idx = i

\* two pages of rows, the first with more than one row, then a stop
TwoPagesReturned ==
  /\ f_pc = "done" /\ df_raw # None
  /\ Len(all_data) >= 2 /\ Len(all_data[1]) >= 2
  /\ responses[Len(responses)].kind = "empty"

====
